---- MODULE Spec2Model ----
(***************************************************************************)
(* A model of nghttp3_ksl (lib/nghttp3_ksl.c): the key-sorted skip list,   *)
(* a B-tree whose internal entries carry an upper bound of the keys of the *)
(* child subtree and whose blocks are chained by next/prev pointers.       *)
(*                                                                         *)
(* The heap is a function from block addresses to block records; its       *)
(* domain is the set of blocks that are allocated and not yet freed.       *)
(* Array indices are 0-based as in the C code: node i of a block is        *)
(* nodes[i + 1] of the sequence.  Only the first n nodes of a block are    *)
(* modelled; the code never reads the slots behind them.                   *)
(***************************************************************************)
EXTENDS Integers, Sequences, FiniteSets, TLC

VARIABLES
  blks,      \* the heap: address -> nghttp3_ksl_blk, for the live blocks
  head,      \* ksl->head
  front,     \* ksl->front
  back,      \* ksl->back
  n,         \* ksl->n
  compar,    \* ksl->compar, the name of the comparison function
  res,       \* what the last public call returned: its name, arguments, rv, cursor
  failed,    \* the assertion that aborted the program, or "none"
  keys,      \* the caller's record: the keys inserted and not removed since
  nupd       \* number of calls made since the first nghttp3_ksl_update_key,
             \* that call included; 0 before it

vars == <<blks, head, front, back, n, compar, res, failed, keys, nupd>>

----------------------------------------------------------------------------
(* Bounds of the model. *)

\* NGHTTP3_KSL_DEGR of nghttp3_ksl.h, scaled down.
KSL_DEGR == 2
\* Keys are the integers 1..MaxKey.
MaxKey == 5
\* Calls per behaviour from the first update_key on, that call included.
MaxUpdates == 2
\* The allocations of one insert call that may be the failing one.
MaxFail == 4
\* Iterations of a descent loop after which a call is taken not to return.
LoopLimit == 16
\* Intervals [begin, end) have 0 <= begin < end <= RangeMax.
RangeMax == 5

\* The fanout limits.  ksl_merge_node asserts lblk->n + rblk->n < MAX_NBLK
\* for two blocks of MIN_NBLK nodes, and ksl_split_blk asserts that both
\* halves of a block of MAX_NBLK nodes have at least MIN_NBLK nodes.
MIN_NBLK == KSL_DEGR - 1
MAX_NBLK == 2 * KSL_DEGR - 1

Keys == 1..MaxKey
NULL == 0
NGHTTP3_ERR_NOMEM == 0 - 501

\* The value the caller stores with a key.
DataOf(key) == 100 + key

----------------------------------------------------------------------------
(* Comparison functions. *)

less(lhs, rhs) == lhs < rhs

\* A key of a container of intervals points to an nghttp3_range; the
\* model writes the range [b, e) as the number b * RangeBase + e.
RangeBase == RangeMax + 1
RangeKey(b, e) == b * RangeBase + e
range_begin(key) == key \div RangeBase
range_end(key) == key % RangeBase
Ranges == {RangeKey(b, e) : b \in 0..(RangeMax - 1), e \in 1..RangeMax} \cap
          {k \in 0..(RangeBase * RangeBase) : range_begin(k) < range_end(k)}

nghttp3_max(a, b) == IF a > b THEN a ELSE b
nghttp3_min(a, b) == IF a < b THEN a ELSE b

nghttp3_ksl_range_compar(lhs, rhs) == range_begin(lhs) < range_begin(rhs)

nghttp3_ksl_range_exclusive_compar(lhs, rhs) ==
  /\ range_begin(lhs) < range_begin(rhs)
  /\ ~(nghttp3_max(range_begin(lhs), range_begin(rhs)) <
         nghttp3_min(range_end(lhs), range_end(rhs)))

Compar(c, lhs, rhs) ==
  IF c = "less" THEN less(lhs, rhs)
  ELSE IF c = "range" THEN nghttp3_ksl_range_compar(lhs, rhs)
  ELSE IF c = "range_exclusive" THEN nghttp3_ksl_range_exclusive_compar(lhs, rhs)
  ELSE FALSE

key_equal(c, lhs, rhs) == ~Compar(c, lhs, rhs) /\ ~Compar(c, rhs, lhs)

----------------------------------------------------------------------------
(* Sequence helpers standing for memmove/memcpy over blk->nodes. *)

InsertAt(s, i, x) == SubSeq(s, 1, i) \o <<x>> \o SubSeq(s, i + 1, Len(s))
RemoveAt(s, i) == SubSeq(s, 1, i) \o SubSeq(s, i + 2, Len(s))

ksl_nth_node(S, blk, i) == S.blks[blk].nodes[i + 1]

\* The number of internal levels above the leaves.
RECURSIVE Height(_, _)
Height(S, blk) ==
  IF S.blks[blk].leaf THEN 0 ELSE 1 + Height(S, S.blks[blk].nodes[1].blk)

\* The program state as one record, threaded through the C functions.
\* nalloc counts the allocations of the current call; the allocation
\* numbered failAt (if any) returns NULL.  iter counts the iterations of
\* the descent loop of the current call.  log records, in order, what the
\* current call found at the points its assertions guard; it is not part
\* of the container.
Cur(failAt) ==
  [blks |-> blks, head |-> head, front |-> front, back |-> back, n |-> n,
   compar |-> compar, failed |-> "none", nalloc |-> 0, failAt |-> failAt,
   iter |-> 0, log |-> <<>>]

Abort(S, what) == [S EXCEPT !.failed = what]

Log(S, e) == [S EXCEPT !.log = Append(@, e)]

\* An address that is not in use.
NewAddr(S) ==
  CHOOSE a \in 1..(Cardinality(DOMAIN S.blks) + 1) :
    /\ a \notin DOMAIN S.blks
    /\ \A b \in 1..(a - 1) : b \in DOMAIN S.blks

\* nghttp3_mem_malloc: the address of a new block, or NULL.
mem_malloc(S) == IF S.nalloc + 1 = S.failAt THEN NULL ELSE NewAddr(S)

\* nghttp3_mem_free
mem_free(S, blk) ==
  [S EXCEPT !.blks = [a \in (DOMAIN S.blks) \ {blk} |-> S.blks[a]]]

----------------------------------------------------------------------------
(* ksl_bsearch *)

RECURSIVE bsearch_loop(_, _, _, _, _)
bsearch_loop(c, nodes, key, left, right) ==
  IF right - left > 1
  THEN LET mid == (left + right) \div 2
       IN IF Compar(c, nodes[mid + 1].key, key)
          THEN bsearch_loop(c, nodes, key, mid, right)
          ELSE bsearch_loop(c, nodes, key, left, mid)
  ELSE right

ksl_bsearch(S, blk, key, c) ==
  bsearch_loop(c, S.blks[blk].nodes, key, 0 - 1, S.blks[blk].n)

\* Lines 272-280: the pairs <<left, right>> the while loop tests, in order.
RECURSIVE bsearch_bounds(_, _, _, _, _)
bsearch_bounds(c, nodes, key, left, right) ==
  <<<<left, right>>>> \o
  (IF right - left > 1
   THEN LET mid == (left + right) \div 2
        IN IF Compar(c, nodes[mid + 1].key, key)
           THEN bsearch_bounds(c, nodes, key, mid, right)
           ELSE bsearch_bounds(c, nodes, key, left, mid)
   ELSE <<>>)

----------------------------------------------------------------------------
(* Splitting.  A C function that uses the result of a call is written as   *)
(* two operators: the second takes the result of the call as a parameter.  *)

\* A ksl_split_blk that moves the larger half to the new block.
split_blk_into_ceil(S, blk, rblk) ==
  IF rblk = NULL THEN [S |-> S, rblk |-> NULL]
  ELSE
    LET b == S.blks[blk]
        rn == (S.blks[blk].n + 1) \div 2
        r == [leaf |-> b.leaf, n |-> rn,
              nodes |-> SubSeq(b.nodes, b.n - rn + 1, b.n),
              next |-> b.next, prev |-> blk]
        l == [b EXCEPT !.next = rblk, !.n = b.n - rn,
                       !.nodes = SubSeq(b.nodes, 1, b.n - rn)]
        nblks == [a \in (DOMAIN S.blks) \cup {rblk} |->
                    IF a = rblk THEN r
                    ELSE IF a = blk THEN l
                    ELSE IF a = b.next THEN [S.blks[a] EXCEPT !.prev = rblk]
                    ELSE S.blks[a]]
        nback == IF b.next = NULL /\ S.back = blk THEN rblk ELSE S.back
    IN [S |-> [S EXCEPT !.blks = nblks, !.back = nback], rblk |-> rblk]

\* ksl_split_blk once the allocation has returned rblk.
split_blk_into(S, blk, rblk) ==
  IF rblk = NULL THEN [S |-> S, rblk |-> NULL]
  ELSE
    LET b == S.blks[blk]
        rn == S.blks[blk].n \div 2
        r == [leaf |-> b.leaf, n |-> rn,
              nodes |-> SubSeq(b.nodes, b.n - rn + 1, b.n),
              next |-> b.next, prev |-> blk]
        l == [b EXCEPT !.next = rblk, !.n = b.n - rn,
                       !.nodes = SubSeq(b.nodes, 1, b.n - rn)]
        nblks == [a \in (DOMAIN S.blks) \cup {rblk} |->
                    IF a = rblk THEN r
                    ELSE IF a = blk THEN l
                    ELSE IF a = b.next THEN [S.blks[a] EXCEPT !.prev = rblk]
                    ELSE S.blks[a]]
        nback == IF b.next = NULL /\ S.back = blk THEN rblk ELSE S.back
    IN [S |-> [S EXCEPT !.blks = nblks, !.back = nback,
                        !.failed =
                          IF b.n - rn < MIN_NBLK THEN "split_blk:blk->n >= MIN_NBLK"
                          ELSE IF rn < MIN_NBLK THEN "split_blk:rblk->n >= MIN_NBLK"
                          ELSE @],
        rblk |-> rblk]

\* Returns [S, rblk]; rblk = NULL on out of memory.
ksl_split_blk(S, blk) ==
  split_blk_into([S EXCEPT !.nalloc = @ + 1], blk, mem_malloc(S))

\* Lines 253 and 185-191: blk is about to receive one more node.
RoomEvent(S, blk, what) ==
  [ev |-> "room", what |-> what, leaf |-> S.blks[blk].leaf, n |-> S.blks[blk].n]

\* ksl_split_node once ksl_split_blk has returned R.
split_node_link(S, blk, i, lblk, R) ==
  IF R.rblk = NULL THEN [S |-> R.S, rv |-> NGHTTP3_ERR_NOMEM]
  ELSE IF R.S.failed # "none" THEN [S |-> R.S, rv |-> 0]
  ELSE IF S.blks[blk].n >= MAX_NBLK
  THEN [S |-> Abort(Log(R.S, RoomEvent(S, blk, "split_node")),
                    "split_node:overflow of blk->nodes"), rv |-> 0]
  ELSE
    LET rkey == ksl_nth_node(R.S, R.rblk, R.S.blks[R.rblk].n - 1).key
        lkey == ksl_nth_node(R.S, lblk, R.S.blks[lblk].n - 1).key
        moved == InsertAt(R.S.blks[blk].nodes, i + 1, [key |-> rkey, blk |-> R.rblk])
    IN [S |-> [Log(R.S, RoomEvent(S, blk, "split_node")) EXCEPT
                 !.blks[blk].nodes = [moved EXCEPT ![i + 1].key = lkey],
                 !.blks[blk].n = @ + 1],
        rv |-> 0]

\* Returns [S, rv].
ksl_split_node(S, blk, i) ==
  split_node_link(S, blk, i, ksl_nth_node(S, blk, i).blk,
                  ksl_split_blk(S, ksl_nth_node(S, blk, i).blk))

\* ksl_split_head once the allocation of the new head has returned nhead.
split_head_link(S, lblk, rblk, nhead) ==
  IF nhead = NULL
  THEN [S |-> mem_free(S, rblk), rv |-> NGHTTP3_ERR_NOMEM]
  ELSE
    LET lkey == ksl_nth_node(S, lblk, S.blks[lblk].n - 1).key
        rkey == ksl_nth_node(S, rblk, S.blks[rblk].n - 1).key
        h == [leaf |-> FALSE, n |-> 2,
              nodes |-> <<[key |-> lkey, blk |-> lblk],
                          [key |-> rkey, blk |-> rblk]>>,
              next |-> NULL, prev |-> NULL]
    IN [S |-> [S EXCEPT !.blks = [a \in (DOMAIN S.blks) \cup {nhead} |->
                                    IF a = nhead THEN h ELSE S.blks[a]],
                        !.head = nhead],
        rv |-> 0]

\* ksl_split_head once ksl_split_blk has returned R.
split_head_alloc(R) ==
  IF R.rblk = NULL THEN [S |-> R.S, rv |-> NGHTTP3_ERR_NOMEM]
  ELSE IF R.S.failed # "none" THEN [S |-> R.S, rv |-> 0]
  ELSE split_head_link([R.S EXCEPT !.nalloc = @ + 1], R.S.head, R.rblk,
                       mem_malloc(R.S))

\* Returns [S, rv].
ksl_split_head(S) == split_head_alloc(ksl_split_blk(S, S.head))

----------------------------------------------------------------------------
(* Insertion *)

\* nghttp3_ksl_it_init
ksl_it_init(blk, i) == [blk |-> blk, i |-> i]
NoIt == ksl_it_init(NULL, 0)

\* A ksl_node_set_key that leaves the key as it is.
ksl_node_set_key_skip(S, blk, i, key) == S

ksl_node_set_key(S, blk, i, key) ==
  [S EXCEPT !.blks[blk].nodes[i + 1].key = key]

\* A ksl_insert_node that appends behind the last node.
ksl_insert_node_append(S, blk, i, key, data) ==
  IF ~(S.blks[blk].n < MAX_NBLK)
  THEN Abort(S, "insert_node:blk->n < MAX_NBLK")
  ELSE [S EXCEPT !.blks[blk].nodes = Append(@, [key |-> key, data |-> data]),
                 !.blks[blk].n = @ + 1]

ksl_insert_node(S, blk, i, key, data) ==
  IF ~(S.blks[blk].n < MAX_NBLK)
  THEN Abort(Log(S, RoomEvent(S, blk, "insert_node")),
             "insert_node:blk->n < MAX_NBLK")
  ELSE [Log(S, RoomEvent(S, blk, "insert_node")) EXCEPT
          !.blks[blk].nodes = InsertAt(@, i, [key |-> key, data |-> data]),
          !.blks[blk].n = @ + 1]

\* An insert that returns the cursor behind the last entry of the leaf.
insert_done_behind(S, blk, i) ==
  IF S.failed # "none" THEN [S |-> S, rv |-> 0, it |-> NoIt]
  ELSE [S |-> [S EXCEPT !.n = @ + 1], rv |-> 0,
        it |-> ksl_it_init(blk, S.blks[blk].n)]

\* Lines 306-310 and 328-332: S is the state ksl_insert_node left.
insert_done(S, blk, i) ==
  IF S.failed # "none" THEN [S |-> S, rv |-> 0, it |-> NoIt]
  ELSE [S |-> [S EXCEPT !.n = @ + 1], rv |-> 0, it |-> ksl_it_init(blk, i)]

\* Lines 315-332: the key is larger than every key of the subtree of blk.
RECURSIVE insert_extend(_, _, _, _)

\* The head of one iteration of a descent loop (ev "visit") or of the loop
\* of lines 317-327 (ev "extend"): the loop is at blk, h levels above the
\* leaves.
VisitEvent(S, blk, ev) ==
  [ev |-> ev, h |-> Height(S, blk), leaf |-> S.blks[blk].leaf]

\* Lines 319-325: ksl_split_node of the last child has returned R.
insert_extend_split(R, blk, key, data) ==
  IF R.rv # 0 \/ R.S.failed # "none"
  THEN [S |-> R.S, rv |-> R.rv, it |-> NoIt]
  ELSE insert_extend(ksl_node_set_key(R.S, blk, R.S.blks[blk].n - 1, key),
                     ksl_nth_node(R.S, blk, R.S.blks[blk].n - 1).blk, key, data)

insert_extend(S, blk, key, data) ==
  IF S.blks[blk].leaf
  THEN insert_done(ksl_insert_node(S, blk, S.blks[blk].n, key, data),
                   blk, S.blks[blk].n)
  ELSE IF S.blks[ksl_nth_node(S, blk, S.blks[blk].n - 1).blk].n = MAX_NBLK
  THEN insert_extend_split(ksl_split_node(Log(S, VisitEvent(S, blk, "extend")),
                                          blk, S.blks[blk].n - 1), blk, key, data)
  ELSE insert_extend(ksl_node_set_key(Log(S, VisitEvent(S, blk, "extend")),
                                      blk, S.blks[blk].n - 1, key),
                     ksl_nth_node(S, blk, S.blks[blk].n - 1).blk, key, data)

\* Lines 301-351: the descent of nghttp3_ksl_insert.
RECURSIVE insert_loop(_, _, _, _)

\* Lines 339-350: ksl_split_node of child i has returned R.
insert_split(R, blk, i, key, data) ==
  IF R.rv # 0 \/ R.S.failed # "none"
  THEN [S |-> R.S, rv |-> R.rv, it |-> NoIt]
  ELSE IF Compar(R.S.compar, ksl_nth_node(R.S, blk, i).key, key)
  THEN insert_loop(IF Compar(R.S.compar, ksl_nth_node(R.S, blk, i + 1).key, key)
                   THEN ksl_node_set_key(R.S, blk, i + 1, key)
                   ELSE R.S,
                   ksl_nth_node(R.S, blk, i + 1).blk, key, data)
  ELSE insert_loop(R.S, ksl_nth_node(R.S, blk, i).blk, key, data)

\* A descent that enters a full child without splitting it.
insert_at_no_split(S, blk, i, key, data) ==
  IF S.blks[blk].leaf
  THEN insert_done(ksl_insert_node(S, blk, i, key, data), blk, i)
  ELSE IF i = S.blks[blk].n
  THEN insert_extend(Log(S, [ev |-> "spine"]), blk, key, data)
  ELSE insert_loop(S, ksl_nth_node(S, blk, i).blk, key, data)

\* Lines 304-350: ksl_bsearch has returned i.
insert_at(S, blk, i, key, data) ==
  IF S.blks[blk].leaf
  THEN insert_done(ksl_insert_node(S, blk, i, key, data), blk, i)
  ELSE IF i = S.blks[blk].n
  THEN insert_extend(Log(S, [ev |-> "spine"]), blk, key, data)
  ELSE IF S.blks[ksl_nth_node(S, blk, i).blk].n = MAX_NBLK
  THEN insert_split(ksl_split_node(S, blk, i), blk, i, key, data)
  ELSE insert_loop(S, ksl_nth_node(S, blk, i).blk, key, data)

insert_loop(S, blk, key, data) ==
  insert_at(Log(S, VisitEvent(S, blk, "visit")), blk,
            ksl_bsearch(S, blk, key, S.compar), key, data)

\* Lines 293-299: ksl_split_head has returned R.
insert_split_head(R, key, data) ==
  IF R.rv # 0 \/ R.S.failed # "none"
  THEN [S |-> R.S, rv |-> R.rv, it |-> NoIt]
  ELSE insert_loop(R.S, R.S.head, key, data)

\* Returns [S, rv, it].
nghttp3_ksl_insert(S, key, data) ==
  IF S.blks[S.head].n = MAX_NBLK
  THEN insert_split_head(ksl_split_head(S), key, data)
  ELSE insert_loop(S, S.head, key, data)

----------------------------------------------------------------------------
(* Removal *)

ksl_remove_node(S, blk, i) ==
  [S EXCEPT !.blks[blk].nodes = RemoveAt(@, i), !.blks[blk].n = @ - 1]

\* A merge that keeps a root of one entry above the merged block.
merge_node_parent_keep_head(S, blk, i, lblk) ==
  ksl_node_set_key(ksl_remove_node(S, blk, i + 1), blk, i,
                   ksl_nth_node(S, lblk, S.blks[lblk].n - 1).key)

\* Lines 399-406: S is the state after rblk was freed.
merge_node_parent(S, blk, i, lblk) ==
  IF S.head = blk /\ S.blks[blk].n = 2
  THEN [mem_free(S, S.head) EXCEPT !.head = lblk]
  ELSE ksl_node_set_key(ksl_remove_node(S, blk, i + 1), blk, i,
                        ksl_nth_node(S, lblk, S.blks[lblk].n - 1).key)

\* A merge that does not release the right block.
merge_node_blks_leak(S, blk, i, lblk, rblk) ==
  LET l == S.blks[lblk]
      r == S.blks[rblk]
      m == [l EXCEPT !.nodes = l.nodes \o r.nodes, !.n = l.n + r.n,
                     !.next = r.next]
      nblks == [a \in DOMAIN S.blks |->
                  IF a = lblk THEN m
                  ELSE IF a = r.next THEN [S.blks[a] EXCEPT !.prev = lblk]
                  ELSE S.blks[a]]
      nback == IF r.next = NULL /\ S.back = rblk THEN lblk ELSE S.back
  IN IF ~(l.n + r.n < MAX_NBLK)
     THEN Abort(S, "merge_node:lblk->n + rblk->n < MAX_NBLK")
     ELSE merge_node_parent([S EXCEPT !.blks = nblks, !.back = nback],
                            blk, i, lblk)

\* Lines 384-397: lblk and rblk are children i and i + 1 of blk.
merge_node_blks(S, blk, i, lblk, rblk) ==
  LET l == S.blks[lblk]
      r == S.blks[rblk]
      m == [l EXCEPT !.nodes = l.nodes \o r.nodes, !.n = l.n + r.n,
                     !.next = r.next]
      nblks == [a \in DOMAIN S.blks |->
                  IF a = lblk THEN m
                  ELSE IF a = r.next THEN [S.blks[a] EXCEPT !.prev = lblk]
                  ELSE S.blks[a]]
      nback == IF r.next = NULL /\ S.back = rblk THEN lblk ELSE S.back
  IN IF ~(l.n + r.n < MAX_NBLK)
     THEN Abort(S, "merge_node:lblk->n + rblk->n < MAX_NBLK")
     ELSE merge_node_parent(mem_free([S EXCEPT !.blks = nblks, !.back = nback], rblk),
                            blk, i, lblk)

\* Line 384: the counts of the two blocks ksl_merge_node is about to join.
MergeEvent(S, blk, i) ==
  [ev |-> "merge",
   ln |-> S.blks[ksl_nth_node(S, blk, i).blk].n,
   rn |-> S.blks[ksl_nth_node(S, blk, i + 1).blk].n,
   collapse |-> (S.head = blk /\ S.blks[blk].n = 2)]

\* Returns [S, lblk].
ksl_merge_node(S, blk, i) ==
  IF ~(i + 1 < S.blks[blk].n)
  THEN [S |-> Abort(S, "merge_node:i + 1 < blk->n"), lblk |-> NULL]
  ELSE [S |-> merge_node_blks(Log(S, MergeEvent(S, blk, i)), blk, i,
                              ksl_nth_node(S, blk, i).blk,
                              ksl_nth_node(S, blk, i + 1).blk),
        lblk |-> ksl_nth_node(S, blk, i).blk]

\* Lines 426-435: lblk and rblk are children i - 1 and i of blk.
shift_left_blks(S, blk, i, lblk, rblk) ==
  IF ~(S.blks[lblk].n < MAX_NBLK) THEN Abort(S, "shift_left:lnode->blk->n < MAX_NBLK")
  ELSE IF ~(S.blks[rblk].n > MIN_NBLK) THEN Abort(S, "shift_left:rnode->blk->n > MIN_NBLK")
  ELSE [S EXCEPT !.blks[lblk].nodes = Append(@, S.blks[rblk].nodes[1]),
                 !.blks[lblk].n = @ + 1,
                 !.blks[blk].nodes[i].key = S.blks[rblk].nodes[1].key,
                 !.blks[rblk].n = @ - 1,
                 !.blks[rblk].nodes = Tail(@)]

ksl_shift_left(S, blk, i) ==
  IF ~(i > 0) THEN Abort(S, "shift_left:i > 0")
  ELSE shift_left_blks(S, blk, i, ksl_nth_node(S, blk, i - 1).blk,
                       ksl_nth_node(S, blk, i).blk)

\* Lines 453-464: lblk and rblk are children i and i + 1 of blk.
shift_right_blks(S, blk, i, lblk, rblk) ==
  IF ~(S.blks[lblk].n > MIN_NBLK) THEN Abort(S, "shift_right:lnode->blk->n > MIN_NBLK")
  ELSE IF ~(S.blks[rblk].n < MAX_NBLK) THEN Abort(S, "shift_right:rnode->blk->n < MAX_NBLK")
  ELSE [S EXCEPT !.blks[rblk].nodes = <<S.blks[lblk].nodes[S.blks[lblk].n]>> \o @,
                 !.blks[rblk].n = @ + 1,
                 !.blks[lblk].n = @ - 1,
                 !.blks[lblk].nodes = SubSeq(@, 1, Len(@) - 1),
                 !.blks[blk].nodes[i + 1].key =
                    S.blks[lblk].nodes[S.blks[lblk].n - 1].key]

\* blk->n - 1 is a size_t: it wraps to SIZE_MAX when blk->n is 0.
ksl_shift_right(S, blk, i) ==
  IF ~(S.blks[blk].n = 0 \/ i < S.blks[blk].n - 1)
  THEN Abort(S, "shift_right:i < blk->n - 1")
  ELSE shift_right_blks(S, blk, i, ksl_nth_node(S, blk, i).blk,
                        ksl_nth_node(S, blk, i + 1).blk)

\* A remove that never moves the cursor to the next leaf.
remove_done_stay(S, blk, i) ==
  [S |-> [S EXCEPT !.n = @ - 1], it |-> ksl_it_init(blk, i)]

\* A remove that does not count the entry it removed.
remove_done_keep_len(S, blk, i) ==
  [S |-> S,
   it |-> IF S.blks[blk].n = i /\ S.blks[blk].next # NULL
          THEN ksl_it_init(S.blks[blk].next, 0)
          ELSE ksl_it_init(blk, i)]

\* Lines 495-504: S is the state ksl_remove_node left.
remove_done(S, blk, i) ==
  [S |-> [S EXCEPT !.n = @ - 1],
   it |-> IF S.blks[blk].n = i /\ S.blks[blk].next # NULL
          THEN ksl_it_init(S.blks[blk].next, 0)
          ELSE ksl_it_init(blk, i)]

\* Lines 488-525: the descent of nghttp3_ksl_remove.  Returns [S, it].
RECURSIVE remove_loop(_, _, _)

\* Lines 517 and 520: ksl_merge_node has returned R.
remove_merged(R, key) == remove_loop(R.S, R.lblk, key)

\* key is the key of an entry of a leaf below blk.
RECURSIVE StoredBelow(_, _, _)
StoredBelow(S, blk, key) ==
  IF S.blks[blk].leaf
  THEN \E j \in 1..S.blks[blk].n : S.blks[blk].nodes[j].key = key
  ELSE \E j \in 1..S.blks[blk].n : StoredBelow(S, S.blks[blk].nodes[j].blk, key)

\* Lines 489-491: the descent is at blk and ksl_bsearch has returned i.
AtEvent(S, blk, i, key) ==
  [ev |-> "at", root |-> (blk = S.head), leaf |-> S.blks[blk].leaf,
   n |-> S.blks[blk].n, i |-> i, held |-> StoredBelow(S, blk, key),
   h |-> Height(S, blk)]

\* Lines 509-521: child i of blk holds MIN_NBLK nodes and the branch what
\* is taken; ln and rn are the counts of the siblings, NULL where there is
\* none.
FixEvent(S, blk, i, what) ==
  [ev |-> "fix", what |-> what, i |-> i, n |-> S.blks[blk].n,
   ln |-> IF i > 0 THEN S.blks[ksl_nth_node(S, blk, i - 1).blk].n ELSE NULL,
   rn |-> IF i + 1 < S.blks[blk].n
          THEN S.blks[ksl_nth_node(S, blk, i + 1).blk].n ELSE NULL]

\* A fixup that merges without looking for a sibling to borrow from.
remove_fix_merge_only(S, blk, i, key) ==
  IF i > 0
  THEN remove_merged(ksl_merge_node(Log(S, FixEvent(S, blk, i, "merge_left")),
                                    blk, i - 1), key)
  ELSE IF ~(i + 1 < S.blks[blk].n)
  THEN [S |-> Abort(S, "remove:i + 1 < blk->n"), it |-> NoIt]
  ELSE remove_merged(ksl_merge_node(Log(S, FixEvent(S, blk, i, "merge_right")),
                                    blk, i), key)

\* Lines 509-521: child i of blk holds MIN_NBLK nodes.
remove_fix(S, blk, i, key) ==
  IF i > 0 /\ S.blks[ksl_nth_node(S, blk, i - 1).blk].n > MIN_NBLK
  THEN remove_loop(ksl_shift_right(Log(S, FixEvent(S, blk, i, "shift_right")),
                                   blk, i - 1), blk, key)
  ELSE IF /\ i + 1 < S.blks[blk].n
          /\ S.blks[ksl_nth_node(S, blk, i + 1).blk].n > MIN_NBLK
  THEN remove_loop(ksl_shift_left(Log(S, FixEvent(S, blk, i, "shift_left")),
                                  blk, i + 1), blk, key)
  ELSE IF i > 0
  THEN remove_merged(ksl_merge_node(Log(S, FixEvent(S, blk, i, "merge_left")),
                                    blk, i - 1), key)
  ELSE IF ~(i + 1 < S.blks[blk].n)
  THEN [S |-> Abort(S, "remove:i + 1 < blk->n"), it |-> NoIt]
  ELSE remove_merged(ksl_merge_node(Log(S, FixEvent(S, blk, i, "merge_right")),
                                    blk, i), key)

\* Lines 491-524: ksl_bsearch has returned i.
remove_at(S, blk, i, key) ==
  IF ~(i < S.blks[blk].n) THEN [S |-> Abort(S, "remove:i < blk->n"), it |-> NoIt]
  ELSE IF S.blks[blk].leaf
  THEN remove_done(ksl_remove_node(S, blk, i), blk, i)
  ELSE IF S.blks[ksl_nth_node(S, blk, i).blk].n = MIN_NBLK
  THEN remove_fix(S, blk, i, key)
  ELSE remove_loop(S, ksl_nth_node(S, blk, i).blk, key)

remove_loop(S, blk, key) ==
  IF S.failed # "none" THEN [S |-> S, it |-> NoIt]
  ELSE IF S.iter >= LoopLimit THEN [S |-> Abort(S, "remove:no progress"), it |-> NoIt]
  ELSE remove_at(Log([S EXCEPT !.iter = @ + 1],
                     AtEvent(S, blk, ksl_bsearch(S, blk, key, S.compar), key)),
                 blk, ksl_bsearch(S, blk, key, S.compar), key)

\* Returns [S, it].
nghttp3_ksl_remove(S, key) ==
  IF /\ ~S.blks[S.head].leaf
     /\ S.blks[S.head].n = 2
     /\ S.blks[ksl_nth_node(S, S.head, 0).blk].n = MIN_NBLK
     /\ S.blks[ksl_nth_node(S, S.head, 1).blk].n = MIN_NBLK
  THEN remove_merged(ksl_merge_node(S, S.head, 0), key)
  ELSE remove_loop(S, S.head, key)

----------------------------------------------------------------------------
(* Search *)

\* Lines 549-550: follow the last child down to a leaf.
RECURSIVE last_leaf(_, _)
last_leaf(S, blk) ==
  IF S.blks[blk].leaf THEN blk
  ELSE last_leaf(S, ksl_nth_node(S, blk, S.blks[blk].n - 1).blk)

\* A lower_bound that never moves the cursor to the next leaf.
lower_bound_leaf_stay(S, blk, i) == ksl_it_init(blk, i)

\* Lines 538-543: the search has reached leaf blk, at index i.
lower_bound_leaf(S, blk, i) ==
  IF i = S.blks[blk].n /\ S.blks[blk].next # NULL
  THEN ksl_it_init(S.blks[blk].next, 0)
  ELSE ksl_it_init(blk, i)

\* Lines 547-558: the key is larger than every key of internal block blk;
\* lf is the last leaf below blk.
lower_bound_forward(S, lf) ==
  IF S.blks[lf].next # NULL
  THEN ksl_it_init(S.blks[lf].next, 0)
  ELSE ksl_it_init(lf, S.blks[lf].n)

RECURSIVE lower_bound_loop(_, _, _, _)

\* Lines 537-560: ksl_bsearch has returned i.
lower_bound_at(S, blk, i, key, c) ==
  IF S.blks[blk].leaf THEN lower_bound_leaf(S, blk, i)
  ELSE IF i = S.blks[blk].n THEN lower_bound_forward(S, last_leaf(S, blk))
  ELSE lower_bound_loop(S, ksl_nth_node(S, blk, i).blk, key, c)

lower_bound_loop(S, blk, key, c) ==
  lower_bound_at(S, blk, ksl_bsearch(S, blk, key, c), key, c)

nghttp3_ksl_lower_bound(S, key) == lower_bound_loop(S, S.head, key, S.compar)

nghttp3_ksl_lower_bound_compar(S, key, c) == lower_bound_loop(S, S.head, key, c)

\* Lines 534-560: the blocks the loop is at when it calls ksl_bsearch, in
\* order.
RECURSIVE lower_bound_path(_, _, _, _)
lower_bound_path(S, blk, key, c) ==
  IF S.blks[blk].leaf \/ ksl_bsearch(S, blk, key, c) = S.blks[blk].n
  THEN <<blk>>
  ELSE <<blk>> \o lower_bound_path(S, ksl_nth_node(S, blk, ksl_bsearch(S, blk, key, c)).blk,
                                   key, c)

----------------------------------------------------------------------------
(* Key update *)

RECURSIVE update_key_loop(_, _, _, _)

\* An update_key that rewrites the key of the leaf entry only.
update_key_at_leaf_only(S, blk, i, old_key, new_key) ==
  IF ~(i < S.blks[blk].n) THEN Abort(S, "update_key:i < blk->n")
  ELSE IF S.blks[blk].leaf
  THEN IF ~key_equal(S.compar, ksl_nth_node(S, blk, i).key, old_key)
       THEN Abort(S, "update_key:key_equal")
       ELSE ksl_node_set_key(S, blk, i, new_key)
  ELSE update_key_loop(S, ksl_nth_node(S, blk, i).blk, old_key, new_key)

\* Lines 611-626: ksl_bsearch has returned i.
update_key_at(S, blk, i, old_key, new_key) ==
  IF ~(i < S.blks[blk].n) THEN Abort(S, "update_key:i < blk->n")
  ELSE IF S.blks[blk].leaf
  THEN IF ~key_equal(S.compar, ksl_nth_node(S, blk, i).key, old_key)
       THEN Abort(S, "update_key:key_equal")
       ELSE ksl_node_set_key(S, blk, i, new_key)
  ELSE update_key_loop(
         IF \/ key_equal(S.compar, ksl_nth_node(S, blk, i).key, old_key)
            \/ Compar(S.compar, ksl_nth_node(S, blk, i).key, new_key)
         THEN ksl_node_set_key(S, blk, i, new_key)
         ELSE S,
         ksl_nth_node(S, blk, i).blk, old_key, new_key)

update_key_loop(S, blk, old_key, new_key) ==
  update_key_at(Log(S, VisitEvent(S, blk, "visit")), blk,
                ksl_bsearch(S, blk, old_key, S.compar), old_key, new_key)

nghttp3_ksl_update_key(S, old_key, new_key) ==
  update_key_loop(S, S.head, old_key, new_key)

----------------------------------------------------------------------------
(* Teardown *)

\* The blocks ksl_free_blk(blk) releases.
RECURSIVE free_blk_set(_, _)
free_blk_set(S, blk) ==
  IF S.blks[blk].leaf THEN {blk}
  ELSE {blk} \cup UNION {free_blk_set(S, S.blks[blk].nodes[j].blk) :
                           j \in 1..S.blks[blk].n}

\* The blocks ksl_free_blk(blk) passes to nghttp3_mem_free, in order: the
\* blocks below every entry first, blk last.
RECURSIVE ksl_free_blk(_, _)
ksl_free_blk(S, blk) ==
  IF S.blks[blk].leaf THEN <<blk>>
  ELSE LET F[j \in 0..S.blks[blk].n] ==
             IF j = 0 THEN <<>>
             ELSE F[j - 1] \o ksl_free_blk(S, S.blks[blk].nodes[j].blk)
       IN Append(F[S.blks[blk].n], blk)

\* The blocks nghttp3_ksl_free passes to nghttp3_mem_free, in order.
nghttp3_ksl_free(S) == ksl_free_blk(S, S.head)

nghttp3_ksl_len(S) == S.n

\* A clear that releases no block.
nghttp3_ksl_clear_leak(S) ==
  [S EXCEPT !.blks[S.head] = [leaf |-> TRUE, n |-> 0, nodes |-> <<>>,
                              next |-> NULL, prev |-> NULL],
            !.front = S.head, !.back = S.head, !.n = 0]

nghttp3_ksl_clear(S) ==
  LET h == S.blks[S.head]
      gone == IF h.leaf THEN {}
              ELSE UNION {free_blk_set(S, h.nodes[j].blk) : j \in 1..h.n}
      cleared == [leaf |-> TRUE, n |-> 0, nodes |-> <<>>, next |-> NULL, prev |-> NULL]
  IN [S EXCEPT !.blks = [a \in (DOMAIN S.blks) \ gone |->
                           IF a = S.head THEN cleared ELSE S.blks[a]],
               !.front = S.head, !.back = S.head, !.n = 0]

----------------------------------------------------------------------------
(* Cursors *)

nghttp3_ksl_begin(S) == ksl_it_init(S.front, 0)
nghttp3_ksl_end(S) == ksl_it_init(S.back, S.blks[S.back].n)

nghttp3_ksl_it_end(S, it) == S.blks[it.blk].n = it.i /\ S.blks[it.blk].next = NULL
nghttp3_ksl_it_begin(S, it) == it.i = 0 /\ S.blks[it.blk].prev = NULL

nghttp3_ksl_it_next(S, it) ==
  IF it.i + 1 = S.blks[it.blk].n /\ S.blks[it.blk].next # NULL
  THEN ksl_it_init(S.blks[it.blk].next, 0)
  ELSE ksl_it_init(it.blk, it.i + 1)

nghttp3_ksl_it_prev(S, it) ==
  IF it.i = 0
  THEN ksl_it_init(S.blks[it.blk].prev, S.blks[S.blks[it.blk].prev].n - 1)
  ELSE ksl_it_init(it.blk, it.i - 1)

nghttp3_ksl_it_key(S, it) == ksl_nth_node(S, it.blk, it.i).key
nghttp3_ksl_it_get(S, it) == ksl_nth_node(S, it.blk, it.i).data

----------------------------------------------------------------------------
(* The state machine: a caller that respects the preconditions of the API. *)

\* No pointer the container holds refers to a freed block.  Calling into a
\* container for which this is false is undefined; the caller below stops.
NoDangling(S) ==
  /\ {S.head, S.front, S.back} \subseteq DOMAIN S.blks
  /\ \A a \in DOMAIN S.blks :
       /\ S.blks[a].next \in (DOMAIN S.blks) \cup {NULL}
       /\ S.blks[a].prev \in (DOMAIN S.blks) \cup {NULL}
       /\ ~S.blks[a].leaf =>
            \A j \in 1..S.blks[a].n : S.blks[a].nodes[j].blk \in DOMAIN S.blks

Callable == failed = "none" /\ NoDangling(Cur(0)) /\ nupd < MaxUpdates

\* The blocks of the tree below blk, parents before children, left to right.
RECURSIVE Preorder(_, _)
Preorder(S, blk) ==
  IF S.blks[blk].leaf THEN <<blk>>
  ELSE LET F[j \in 0..S.blks[blk].n] ==
             IF j = 0 THEN <<blk>>
             ELSE F[j - 1] \o Preorder(S, S.blks[blk].nodes[j].blk)
       IN F[S.blks[blk].n]

Range(s) == {s[j] : j \in 1..Len(s)}

\* Addresses are opaque: the code only dereferences them and compares them
\* for equality.  Two heaps that differ by a renaming of addresses are the
\* same program state, so after each call the live blocks are renumbered in
\* tree order.  A heap whose live blocks are not exactly the blocks of the
\* tree (a leak, a dangling pointer) is left as it is.
RenamingBy(S, order) ==
  IF Range(order) # DOMAIN S.blks \/ Len(order) # Cardinality(DOMAIN S.blks)
  THEN [a \in DOMAIN S.blks |-> a]
  ELSE [a \in DOMAIN S.blks |-> CHOOSE j \in 1..Len(order) : order[j] = a]

Renaming(S) ==
  IF ~NoDangling(S) THEN [a \in DOMAIN S.blks |-> a]
  ELSE RenamingBy(S, Preorder(S, S.head))

RenameBlk(b, rho) ==
  [b EXCEPT !.next = IF @ \in DOMAIN rho THEN rho[@] ELSE @,
            !.prev = IF @ \in DOMAIN rho THEN rho[@] ELSE @,
            !.nodes = IF b.leaf THEN @
                      ELSE [j \in 1..Len(@) |->
                              [@[j] EXCEPT !.blk = IF @ \in DOMAIN rho THEN rho[@] ELSE @]]]

RenamePtr(a, rho) == IF a \in DOMAIN rho THEN rho[a] ELSE a

Result(op, key, new_key, rv, it) ==
  [op |-> op, key |-> key, new_key |-> new_key, rv |-> rv, it |-> it]

\* The container fields after a call that left state S, with the live
\* blocks renumbered by rho.
Store(S, rho) ==
  /\ blks' = [a \in {rho[x] : x \in DOMAIN S.blks} |->
                RenameBlk(S.blks[CHOOSE x \in DOMAIN S.blks : rho[x] = a], rho)]
  /\ head' = RenamePtr(S.head, rho)
  /\ front' = RenamePtr(S.front, rho)
  /\ back' = RenamePtr(S.back, rho)
  /\ n' = S.n
  /\ compar' = S.compar
  /\ failed' = S.failed

RenameIt(it, rho) == ksl_it_init(RenamePtr(it.blk, rho), it.i)

\* What a call leaves behind: the container, the return value and the
\* cursor it handed back, and the caller's record of the stored keys.
Return(S, rho, op, key, new_key, rv, it, nkeys) ==
  /\ Store(S, rho)
  /\ res' = Result(op, key, new_key, rv, RenameIt(it, rho))
  /\ keys' = IF S.failed = "none" /\ rv = 0 THEN nkeys ELSE keys

\* nghttp3_ksl_init
Init ==
  /\ blks = (1 :> [leaf |-> TRUE, n |-> 0, nodes |-> <<>>,
                   next |-> NULL, prev |-> NULL])
  /\ head = 1
  /\ front = 1
  /\ back = 1
  /\ n = 0
  /\ compar = "less"
  /\ res = Result("init", 0, 0, 0, NoIt)
  /\ failed = "none"
  /\ keys = {}
  /\ nupd = 0

\* A call of nghttp3_ksl_insert in which every allocation succeeds.
Insert(key) ==
  /\ Callable
  /\ key \notin keys
  /\ \E R \in {nghttp3_ksl_insert(Cur(0), key, DataOf(key))} :
       \E rho \in {Renaming(R.S)} :
         Return(R.S, rho, "insert", key, 0, R.rv, R.it, keys \cup {key})
  /\ nupd' = IF nupd = 0 THEN 0 ELSE nupd + 1

\* A call of nghttp3_ksl_insert in which allocation number failAt fails.
InsertNoMem(key, failAt) ==
  /\ Callable
  /\ key \notin keys
  /\ \E R \in {nghttp3_ksl_insert(Cur(failAt), key, DataOf(key))} :
       /\ R.rv = NGHTTP3_ERR_NOMEM
       /\ \E rho \in {Renaming(R.S)} :
            Return(R.S, rho, "insert", key, 0, R.rv, R.it, keys)
  /\ nupd' = IF nupd = 0 THEN 0 ELSE nupd + 1

Remove(key) ==
  /\ Callable
  /\ key \in keys
  /\ \E R \in {nghttp3_ksl_remove(Cur(0), key)} :
       \E rho \in {Renaming(R.S)} :
         Return(R.S, rho, "remove", key, 0, 0, R.it, keys \ {key})
  /\ nupd' = IF nupd = 0 THEN 0 ELSE nupd + 1

\* new_key does not collide with or cross another stored key.
ValidRename(old_key, new_key) ==
  /\ old_key \in keys
  /\ new_key \notin keys \ {old_key}
  /\ \A k \in keys \ {old_key} : (k < old_key) <=> (k < new_key)

UpdateKey(old_key, new_key) ==
  /\ Callable
  /\ ValidRename(old_key, new_key)
  /\ \E S \in {nghttp3_ksl_update_key(Cur(0), old_key, new_key)} :
       \E rho \in {Renaming(S)} :
         Return(S, rho, "update_key", old_key, new_key, 0, NoIt,
                (keys \ {old_key}) \cup {new_key})
  /\ nupd' = nupd + 1

Clear ==
  /\ Callable
  /\ keys # {}
  /\ \E S \in {nghttp3_ksl_clear(Cur(0))} :
       \E rho \in {Renaming(S)} :
         Return(S, rho, "clear", 0, 0, 0, NoIt, {})
  /\ nupd' = IF nupd = 0 THEN 0 ELSE nupd + 1

\* The caller that inserts, removes and clears.
Next ==
  \/ \E key \in Keys : Insert(key)
  \/ \E key \in Keys : Remove(key)
  \/ Clear

Spec == Init /\ [][Next]_vars

\* The caller that also renames keys.
NextUpd ==
  \/ \E key \in Keys : Insert(key)
  \/ \E key \in Keys : Remove(key)
  \/ \E old_key \in Keys, new_key \in Keys : UpdateKey(old_key, new_key)
  \/ Clear

SpecUpd == Init /\ [][NextUpd]_vars

\* The caller whose allocator may fail.
NextNoMem ==
  \/ \E key \in Keys : Insert(key)
  \/ \E key \in Keys, failAt \in 1..MaxFail : InsertNoMem(key, failAt)
  \/ \E key \in Keys : Remove(key)
  \/ Clear

SpecNoMem == Init /\ [][NextNoMem]_vars

\* The caller that uses every operation, and whose allocator may fail.
NextAll ==
  \/ \E key \in Keys : Insert(key)
  \/ \E key \in Keys, failAt \in 1..MaxFail : InsertNoMem(key, failAt)
  \/ \E key \in Keys : Remove(key)
  \/ \E old_key \in Keys, new_key \in Keys : UpdateKey(old_key, new_key)
  \/ Clear

SpecAll == Init /\ [][NextAll]_vars

\* nghttp3_ksl_init with nghttp3_ksl_range_compar.
InitRange ==
  /\ blks = (1 :> [leaf |-> TRUE, n |-> 0, nodes |-> <<>>,
                   next |-> NULL, prev |-> NULL])
  /\ head = 1
  /\ front = 1
  /\ back = 1
  /\ n = 0
  /\ compar = "range"
  /\ res = Result("init", 0, 0, 0, NoIt)
  /\ failed = "none"
  /\ keys = {}
  /\ nupd = 0

\* An insert of an interval that shares no point with a stored interval.
InsertRange(key) ==
  /\ \A k \in keys : ~(nghttp3_max(range_begin(k), range_begin(key)) <
                        nghttp3_min(range_end(k), range_end(key)))
  /\ Insert(key)

\* The caller that stores pairwise disjoint intervals.
NextRange ==
  \/ \E key \in Ranges : InsertRange(key)
  \/ \E key \in Ranges : Remove(key)
  \/ Clear

SpecRange == InitRange /\ [][NextRange]_vars

----------------------------------------------------------------------------
(* What a caller can observe of the container. *)

\* The container as it is now.
Now == Cur(0)

Invalid == 0 - 1

\* The keys a caller reads walking from cursor it with it_next until
\* it_end, at most fuel of them; Invalid stands for a position that
\* must not be read (a freed block, an index at or behind the count).
RECURSIVE WalkFrom(_, _, _)
WalkFrom(S, it, fuel) ==
  IF it.blk \notin DOMAIN S.blks THEN <<Invalid>>
  ELSE IF nghttp3_ksl_it_end(S, it) THEN <<>>
  ELSE IF fuel = 0 \/ ~(it.i < S.blks[it.blk].n) THEN <<Invalid>>
  ELSE <<nghttp3_ksl_it_key(S, it)>> \o WalkFrom(S, nghttp3_ksl_it_next(S, it), fuel - 1)

\* The traversal from begin() to end().
Walk(S) == WalkFrom(S, nghttp3_ksl_begin(S), MaxKey + 1)

Ascending(s) == \A j \in 1..(Len(s) - 1) : s[j] < s[j + 1]

\* The keys stored in the leaves below blk.
RECURSIVE SubtreeKeys(_, _)
SubtreeKeys(S, blk) ==
  IF S.blks[blk].leaf THEN {S.blks[blk].nodes[j].key : j \in 1..S.blks[blk].n}
  ELSE UNION {SubtreeKeys(S, S.blks[blk].nodes[j].blk) : j \in 1..S.blks[blk].n}

SetMax(s) == CHOOSE x \in s : \A y \in s : y <= x
SetMin(s) == CHOOSE x \in s : \A y \in s : x <= y

Internal(S) == {a \in DOMAIN S.blks : ~S.blks[a].leaf}
Leaves(S) == {a \in DOMAIN S.blks : S.blks[a].leaf}

\* Cursor it is at a position that may be read.
Readable(S, it) == it.blk \in DOMAIN S.blks /\ it.i < S.blks[it.blk].n

----------------------------------------------------------------------------
(* C1: after every sequence of inserts of new keys and removes of stored   *)
(* keys, the walk from begin() by it_next to end() visits the keys in      *)
(* strictly ascending order, and the keys visited are exactly the keys     *)
(* inserted and not removed, each once.                                    *)
C1_TraversalAscending ==
  /\ failed = "none"
  /\ Ascending(Walk(Now))
  /\ Range(Walk(Now)) = keys
  /\ Len(Walk(Now)) = Cardinality(keys)

\* A tree of three levels, after a remove, whose walk crosses leaves.
C1_Witness ==
  /\ res.op = "remove"
  /\ Height(Now, head) = 2
  /\ Cardinality(Leaves(Now)) >= 3
  /\ Len(Walk(Now)) >= 4

(* C2: after any sequence of inserts and removes, lower_bound(k) is the    *)
(* cursor at the smallest stored key not less than k, and is end() exactly *)
(* when every stored key is less than k; it is never at index == count of  *)
(* a leaf that has a next leaf.                                            *)
C2_LowerBound ==
  \A k \in 0..(MaxKey + 1) :
    LET it == nghttp3_ksl_lower_bound(Now, k)
        ge == {x \in keys : ~(x < k)}
    IN /\ it.blk \in DOMAIN blks
       /\ (ge = {}) <=> nghttp3_ksl_it_end(Now, it)
       /\ ge = {} => it = nghttp3_ksl_end(Now)
       /\ ge # {} => Readable(Now, it) /\ nghttp3_ksl_it_key(Now, it) = SetMin(ge)
       /\ ~(it.i = blks[it.blk].n /\ blks[it.blk].next # NULL)

\* The key just removed was the largest of its leaf, its separator still
\* names it, and the search for it ends in the leaf and hops to the next.
C2_Witness ==
  /\ res.op = "remove"
  /\ \E a \in Internal(Now) : \E j \in 1..blks[a].n :
       /\ blks[a].nodes[j].key = res.key
       /\ blks[blks[a].nodes[j].blk].leaf
       /\ blks[blks[a].nodes[j].blk].next # NULL
       /\ nghttp3_ksl_lower_bound(Now, res.key) =
            ksl_it_init(blks[blks[a].nodes[j].blk].next, 0)

\* The container as the step leaves it.
After ==
  [blks |-> blks', head |-> head', front |-> front', back |-> back', n |-> n',
   compar |-> compar', failed |-> failed', nalloc |-> 0, failAt |-> 0, iter |-> 0,
   log |-> <<>>]

\* The keys of the entries of the internal blocks.
Separators(S) ==
  UNION {{S.blks[a].nodes[j].key : j \in 1..S.blks[a].n} : a \in Internal(S)}

(* C3: an insert that reports out of memory leaves the container as it was *)
(* before the failing allocation: no freed block is still linked, the walk *)
(* from begin() to end(), the stored keys and len() are those of before    *)
(* the call, the front and back leaves hold their entries and end the leaf *)
(* chain, and no separator became the key that was not inserted.           *)
C3_FailedInsertKeepsState ==
  [][(res'.op = "insert" /\ res'.rv = NGHTTP3_ERR_NOMEM) =>
       /\ failed' = "none"
       /\ NoDangling(After)
       /\ Walk(After) = Walk(Now)
       /\ SubtreeKeys(After, head') = keys
       /\ n' = n
       /\ blks'[front'].leaf /\ blks'[front'].prev = NULL
       /\ blks'[front'].nodes = blks[front].nodes
       /\ blks'[back'].leaf /\ blks'[back'].next = NULL
       /\ blks'[back'].nodes = blks[back].nodes
       /\ res'.key \in Separators(After) => res'.key \in Separators(Now)]_vars

Below(S, a, j) == SubtreeKeys(S, S.blks[a].nodes[j].blk)

C6_FanoutBounds ==
  /\ failed = "none"
  /\ \A a \in DOMAIN blks :
       /\ Len(blks[a].nodes) = blks[a].n
       /\ a # head => MIN_NBLK <= blks[a].n /\ blks[a].n <= MAX_NBLK
       /\ blks[a].n = MAX_NBLK =>
            \A R \in {ksl_split_blk(Now, a)} :
              /\ R.S.failed = "none"
              /\ R.rblk \notin DOMAIN blks
              /\ R.S.blks[R.rblk].n = blks[a].n \div 2
              /\ R.S.blks[a].n = blks[a].n - (blks[a].n \div 2)
              /\ R.S.blks[a].n >= MIN_NBLK /\ R.S.blks[R.rblk].n >= MIN_NBLK
              /\ R.S.blks[a].nodes \o R.S.blks[R.rblk].nodes = blks[a].nodes
  /\ blks[head].n <= MAX_NBLK
  /\ blks[head].leaf \/ blks[head].n >= 2

\* A tree of three levels with a full block and a block at the minimum.
C6_Witness ==
  /\ res.op = "remove"
  /\ Height(Now, head) = 2
  /\ \E a \in DOMAIN blks : a # head /\ blks[a].n = MAX_NBLK
  /\ \E a \in DOMAIN blks : a # head /\ blks[a].n = MIN_NBLK

(* C7: when every inserted key has been removed again the container is as  *)
(* nghttp3_ksl_init left it: len() is 0, the root is the only block, a     *)
(* leaf with 0 entries and no prev or next, front and back are the root,   *)
(* begin() equals end(), and it_begin and it_end hold for that cursor.     *)
C7_EmptiedIsFresh ==
  keys = {} =>
    /\ failed = "none"
    /\ nghttp3_ksl_len(Now) = 0
    /\ DOMAIN blks = {head}
    /\ blks[head] = [leaf |-> TRUE, n |-> 0, nodes |-> <<>>,
                     next |-> NULL, prev |-> NULL]
    /\ front = head /\ back = head
    /\ nghttp3_ksl_begin(Now) = nghttp3_ksl_end(Now)
    /\ nghttp3_ksl_it_begin(Now, nghttp3_ksl_begin(Now))
    /\ nghttp3_ksl_it_end(Now, nghttp3_ksl_begin(Now))

\* The last stored key has just been removed.
C7_Witness ==
  /\ res.op = "remove"
  /\ keys = {}
  /\ res.it = nghttp3_ksl_end(Now)

\* The number of entries stored in the live leaves.
LeafEntries(S) ==
  Cardinality(UNION {{<<a, j>> : j \in 1..S.blks[a].n} : a \in Leaves(S)})

(* C8: after every operation len() is the number of entries stored in the  *)
(* leaves, which is the number of positions of the walk from begin() to    *)
(* end(); a successful insert raises it by 1, a remove lowers it by 1, a   *)
(* failed insert and update_key leave it unchanged, clear sets it to 0.    *)
C8_LenIsLeafEntryCount ==
  [][/\ nghttp3_ksl_len(After) = LeafEntries(After)
     /\ Invalid \notin Range(Walk(After))
     /\ nghttp3_ksl_len(After) = Len(Walk(After))
     /\ (res'.op = "insert" /\ res'.rv = 0) => n' = n + 1
     /\ (res'.op = "insert" /\ res'.rv # 0) => n' = n
     /\ res'.op = "remove" => n' = n - 1
     /\ res'.op = "update_key" => n' = n
     /\ res'.op = "clear" => n' = 0]_vars

OnPath(S, a, j, key) == key \in Below(S, a, j)

(* C10: update_key(old_key, new_key) with new_key strictly between the     *)
(* stored predecessor and successor of old_key changes only keys: the same *)
(* blocks with the same counts, links, children and values, the same       *)
(* len(), head, front and back; the walk is the previous one with old_key  *)
(* replaced by new_key; every separator on the descent path is not less    *)
(* than any key of its subtree and less than every key of the next sibling *)
(* subtree; lower_bound(new_key) is the renamed entry with its value.      *)
C10_UpdateKeyChangesOnlyKeys ==
  [][res'.op = "update_key" =>
       /\ failed' = "none"
       /\ DOMAIN blks' = DOMAIN blks
       /\ head' = head /\ front' = front /\ back' = back /\ n' = n
       /\ \A a \in DOMAIN blks :
            /\ blks'[a].leaf = blks[a].leaf
            /\ blks'[a].n = blks[a].n
            /\ blks'[a].next = blks[a].next
            /\ blks'[a].prev = blks[a].prev
            /\ Len(blks'[a].nodes) = Len(blks[a].nodes)
            /\ \A j \in 1..blks[a].n :
                 IF blks[a].leaf
                 THEN /\ blks'[a].nodes[j].data = blks[a].nodes[j].data
                      /\ blks'[a].nodes[j].key =
                           IF blks[a].nodes[j].key = res'.key THEN res'.new_key
                           ELSE blks[a].nodes[j].key
                 ELSE /\ blks'[a].nodes[j].blk = blks[a].nodes[j].blk
                      /\ blks'[a].nodes[j].key \in {blks[a].nodes[j].key, res'.new_key}
       /\ Walk(After) = [j \in 1..Len(Walk(Now)) |->
                           IF Walk(Now)[j] = res'.key THEN res'.new_key
                           ELSE Walk(Now)[j]]
       /\ \A a \in Internal(After) : \A j \in 1..blks'[a].n :
            OnPath(After, a, j, res'.new_key) =>
              /\ \A k \in Below(After, a, j) : ~(blks'[a].nodes[j].key < k)
              /\ j < blks'[a].n =>
                   \A k \in Below(After, a, j + 1) : blks'[a].nodes[j].key < k
       /\ \A it \in {nghttp3_ksl_lower_bound(After, res'.new_key)} :
            /\ Readable(After, it)
            /\ nghttp3_ksl_it_key(After, it) = res'.new_key
            /\ blks[it.blk].nodes[it.i + 1].key = res'.key
            /\ nghttp3_ksl_it_get(After, it) = blks[it.blk].nodes[it.i + 1].data]_vars

\* The sequence s lists no element twice.
Distinct(s) == Len(s) = Cardinality(Range(s))

(* C11: nghttp3_ksl_clear, called in any reachable state, leaves the       *)
(* container as nghttp3_ksl_init does: the root is the only live block, a  *)
(* leaf with 0 entries and no prev or next, front and back are the root,   *)
(* len() is 0 and begin() equals end(); the blocks it releases are the     *)
(* blocks below the root, each listed once by the recursion of             *)
(* ksl_free_blk; the state equals the initial state, so every later        *)
(* sequence of calls behaves as on a fresh container.                      *)
C11_ClearResets ==
  [][res'.op = "clear" =>
       /\ failed' = "none"
       /\ Distinct(Preorder(Now, head))
       /\ Range(Preorder(Now, head)) = DOMAIN blks
       /\ DOMAIN blks' = {head'}
       /\ blks'[head'] = [leaf |-> TRUE, n |-> 0, nodes |-> <<>>,
                          next |-> NULL, prev |-> NULL]
       /\ front' = head' /\ back' = head'
       /\ nghttp3_ksl_len(After) = 0
       /\ nghttp3_ksl_begin(After) = nghttp3_ksl_end(After)
       /\ nghttp3_ksl_it_end(After, nghttp3_ksl_begin(After))
       /\ keys' = {}
       /\ head' = 1 /\ compar' = "less"]_vars

\* A clear has just returned.
C11_Witness ==
  /\ res.op = "clear"
  /\ failed = "none"
  /\ DOMAIN blks = {head}
  /\ blks[head].leaf /\ blks[head].n = 0

\* The intervals a and b share a point.
Overlap(a, b) ==
  nghttp3_max(range_begin(a), range_begin(b)) < nghttp3_min(range_end(a), range_end(b))

PairwiseDisjoint(s) == \A a \in s : \A b \in s : a # b => ~Overlap(a, b)

\* The stored intervals that overlap q or begin at or after q.begin.
NotBefore(q) ==
  {k \in keys : Overlap(k, q) \/ ~(range_begin(k) < range_begin(q))}

(* C12: in a container of intervals ordered by begin,                      *)
(* lower_bound_compar(q, nghttp3_ksl_range_exclusive_compar) is a cursor   *)
(* at a stored interval that overlaps q whenever one does; when the stored *)
(* intervals are pairwise disjoint it is the cursor at the first stored    *)
(* interval that overlaps q or begins at or after q.begin, and end() if    *)
(* there is none, also after removes that left separators above the        *)
(* largest key of a subtree.                                               *)
C12_RangeLowerBound ==
  \A q \in Ranges :
    \A it \in {nghttp3_ksl_lower_bound_compar(Now, q, "range_exclusive")} :
      /\ failed = "none"
      /\ (\E k \in keys : Overlap(k, q)) =>
           /\ Readable(Now, it)
           /\ Overlap(nghttp3_ksl_it_key(Now, it), q)
      /\ PairwiseDisjoint(keys) =>
           IF NotBefore(q) = {}
           THEN it = nghttp3_ksl_end(Now)
           ELSE /\ Readable(Now, it)
                /\ nghttp3_ksl_it_key(Now, it) = SetMin(NotBefore(q))

\* The depth and the leaf flag of every block below blk, blk at depth d.
RECURSIVE DepthFlags(_, _, _)
DepthFlags(S, blk, d) ==
  {<<d, S.blks[blk].leaf>>} \cup
  (IF S.blks[blk].leaf THEN {}
   ELSE UNION {DepthFlags(S, S.blks[blk].nodes[j].blk, d + 1) : j \in 1..S.blks[blk].n})

\* Lines 482-485: the root is internal, has 2 entries, and both children
\* hold MIN_NBLK entries.
RootMerges(S) ==
  /\ ~S.blks[S.head].leaf
  /\ S.blks[S.head].n = 2
  /\ S.blks[ksl_nth_node(S, S.head, 0).blk].n = MIN_NBLK
  /\ S.blks[ksl_nth_node(S, S.head, 1).blk].n = MIN_NBLK

\* The container after the merge of lines 482-486.
RootMerged(S) == ksl_merge_node(S, S.head, 0).S

Cursors(S) ==
  {ksl_it_init(a, i - 1) : <<a, i>> \in
     UNION {{<<a, i>> : i \in 1..S.blks[a].n} : a \in Leaves(S)}}
  \cup {nghttp3_ksl_end(S)}

\* The keys a caller reads walking from cursor it with it_prev until
\* it_begin, at most fuel of them; Invalid stands for a step that reads a
\* missing prev link or a position that must not be read.
RECURSIVE WalkBackFrom(_, _, _)
WalkBackFrom(S, it, fuel) ==
  IF it.blk \notin DOMAIN S.blks THEN <<Invalid>>
  ELSE IF nghttp3_ksl_it_begin(S, it) THEN <<>>
  ELSE IF fuel = 0 \/ (it.i = 0 /\ S.blks[it.blk].prev \notin DOMAIN S.blks)
  THEN <<Invalid>>
  ELSE IF ~Readable(S, nghttp3_ksl_it_prev(S, it)) THEN <<Invalid>>
  ELSE <<nghttp3_ksl_it_key(S, nghttp3_ksl_it_prev(S, it))>> \o
       WalkBackFrom(S, nghttp3_ksl_it_prev(S, it), fuel - 1)

\* The traversal from end() back to begin().
WalkBack(S) == WalkBackFrom(S, nghttp3_ksl_end(S), MaxKey + 1)

Reverse(s) == [j \in 1..Len(s) |-> s[Len(s) + 1 - j]]

(* C14: in every state of a running program, for every                     *)
(* cursor that is not end() it_next then it_prev gives the cursor back,    *)
(* for every cursor that is not begin() it_prev reads an existing prev     *)
(* link, stops at a stored entry, and it_next after it gives the cursor    *)
(* back; the walk from end() by it_prev until it_begin visits the stored   *)
(* keys in strictly descending order, the reverse of the forward walk.     *)
C14_PrevInvertsNext ==
  failed = "none" =>
  /\ \A it \in Cursors(Now) :
       /\ ~nghttp3_ksl_it_end(Now, it) =>
            /\ nghttp3_ksl_it_next(Now, it) \in Cursors(Now)
            /\ ~nghttp3_ksl_it_begin(Now, nghttp3_ksl_it_next(Now, it))
            /\ nghttp3_ksl_it_prev(Now, nghttp3_ksl_it_next(Now, it)) = it
       /\ ~nghttp3_ksl_it_begin(Now, it) =>
            /\ it.i = 0 => blks[it.blk].prev \in DOMAIN blks
            /\ Readable(Now, nghttp3_ksl_it_prev(Now, it))
            /\ blks[nghttp3_ksl_it_prev(Now, it).blk].leaf
            /\ ~nghttp3_ksl_it_end(Now, nghttp3_ksl_it_prev(Now, it))
            /\ nghttp3_ksl_it_next(Now, nghttp3_ksl_it_prev(Now, it)) = it
  /\ Invalid \notin Range(WalkBack(Now))
  /\ Ascending(Reverse(WalkBack(Now)))
  /\ WalkBack(Now) = Reverse(Walk(Now))
  /\ Range(WalkBack(Now)) = keys

(* C15: every insert that reports success, whatever operations came        *)
(* before, returns a cursor at a leaf, at an index below the count of the  *)
(* leaf, and the entry there has the key and the value that were inserted. *)
C15_InsertReturnsEntry ==
  (res.op = "insert" /\ res.rv = 0) =>
    /\ failed = "none"
    /\ res.it.blk \in DOMAIN blks
    /\ blks[res.it.blk].leaf
    /\ res.it.i < blks[res.it.blk].n
    /\ nghttp3_ksl_it_key(Now, res.it) = res.key
    /\ nghttp3_ksl_it_get(Now, res.it) = DataOf(res.key)
    /\ res.it \in Cursors(Now)

\* The insert went down a tree of three levels into a leaf that is neither
\* the first nor the last and now holds 2 entries, the inserted one first:
\* the leaf was entered by the ordinary descent.
C15_Witness ==
  /\ res.op = "insert"
  /\ res.rv = 0
  /\ Height(Now, head) = 2
  /\ res.it.i = 0
  /\ blks[res.it.blk].n = 2
  /\ blks[res.it.blk].prev # NULL
  /\ blks[res.it.blk].next # NULL

\* What nghttp3_ksl_remove(key) finds on its way when called now.
RemoveLog(key) == nghttp3_ksl_remove(Now, key).S.log

\* The events of kind ev in log L.
Events(L, ev) == {L[j] : j \in {j \in 1..Len(L) : L[j].ev = ev}}

(* C16 as stated: with MAX_FANOUT = 2 * MIN_FANOUT, the counts of the two  *)
(* blocks of every merge performed by remove sum to strictly less than     *)
(* MAX_FANOUT.                                                             *)
C16_MergeBelowTwiceMin ==
  [][res'.op = "remove" =>
       \A L \in {RemoveLog(res'.key)} :
         \A e \in Events(L, "merge") : e.ln + e.rn < 2 * MIN_NBLK]_vars

(* C16, amended: every merge performed by remove (the root merge and the   *)
(* merges of the descent) joins two blocks of MIN_NBLK entries each; their *)
(* counts sum to 2 * MIN_NBLK, which is MAX_NBLK - 1, so the assertion of  *)
(* ksl_merge_node holds with MAX_NBLK = 2 * MIN_NBLK + 1 and neither       *)
(* assertion of ksl_merge_node fails.                                      *)
C16_MergeJoinsTwoMinBlocks ==
  [][res'.op = "remove" =>
       /\ failed' \notin {"merge_node:i + 1 < blk->n",
                          "merge_node:lblk->n + rblk->n < MAX_NBLK"}
       /\ \A L \in {RemoveLog(res'.key)} :
            \A e \in Events(L, "merge") :
              /\ e.ln = MIN_NBLK /\ e.rn = MIN_NBLK
              /\ e.ln + e.rn = MAX_NBLK - 1
              /\ e.ln + e.rn < MAX_NBLK]_vars

\* After a remove, a tree of three levels in which the remove of some
\* stored key merges the children of the root and merges again below.
C16_Witness ==
  /\ res.op = "remove"
  /\ Height(Now, head) = 2
  /\ RootMerges(Now)
  /\ \E key \in keys : \E L \in {RemoveLog(key)} :
       /\ Len(L) >= 2
       /\ L[1].ev = "merge"
       /\ \E j \in 2..Len(L) : L[j].ev = "merge"

\* Lines 509-521: the branch to take for child i when the left sibling
\* holds ln and the right sibling rn nodes (NULL: no such sibling).
FixFor(e) ==
  IF e.i > 0 /\ e.ln > MIN_NBLK THEN "shift_right"
  ELSE IF e.i + 1 < e.n /\ e.rn > MIN_NBLK THEN "shift_left"
  ELSE IF e.i > 0 THEN "merge_left"
  ELSE "merge_right"

(* C17: during the remove of a stored key no assertion fails; at every     *)
(* block the descent is at, the search index is below the count and the    *)
(* key is stored below the block, and the block holds more than MIN_NBLK   *)
(* entries unless it is the root; for a child of MIN_NBLK entries the      *)
(* fixup is: take the last entry of the left sibling if that holds more    *)
(* than MIN_NBLK, else the first entry of the right sibling if that holds  *)
(* more than MIN_NBLK, else merge with the left sibling if there is one,   *)
(* else with the right sibling, which then exists.                         *)
C17_RemoveDescent ==
  [][res'.op = "remove" =>
       /\ failed' = "none"
       /\ \A L \in {RemoveLog(res'.key)} :
            /\ Events(L, "at") # {}
            /\ \A e \in Events(L, "at") :
                 /\ e.i < e.n
                 /\ e.held
                 /\ ~e.root => e.n > MIN_NBLK
            /\ \A e \in Events(L, "fix") :
                 /\ e.what = FixFor(e)
                 /\ e.what = "merge_left" => e.ln = MIN_NBLK
                 /\ e.what = "merge_right" => e.i + 1 < e.n /\ e.rn = MIN_NBLK]_vars

\* What nghttp3_ksl_insert(key) finds on its way when called now.
InsertLog(key) == nghttp3_ksl_insert(Now, key, DataOf(key)).S.log

(* C18: no assertion fails during an insert, whatever operations came      *)
(* before and whether or not an allocation fails; in an insert that        *)
(* succeeds, the leaf that ksl_insert_node writes to and every block that  *)
(* ksl_split_node adds a separator to hold fewer than MAX_NBLK entries     *)
(* before the write, on the ordinary and on the rightmost-spine descent,   *)
(* and no block holds more than MAX_NBLK entries afterwards.               *)
C18_InsertFindsRoom ==
  [][res'.op = "insert" =>
       /\ failed' = "none"
       /\ \A a \in DOMAIN blks' : blks'[a].n <= MAX_NBLK /\ Len(blks'[a].nodes) = blks'[a].n
       /\ res'.rv = 0 =>
            \A L \in {InsertLog(res'.key)} :
              /\ \A e \in Events(L, "room") : e.n < MAX_NBLK
              /\ \E e \in Events(L, "room") : e.what = "insert_node" /\ e.leaf
              /\ \A e \in Events(L, "room") : e.what = "split_node" => ~e.leaf]_vars

\* After an insert, a tree in which the insert of some new key goes down
\* the rightmost spine, splits the last child of a block that has one free
\* entry left, and writes to a leaf.
C18_Witness ==
  /\ res.op = "insert"
  /\ ~blks[head].leaf
  /\ \E key \in Keys \ keys : \E L \in {InsertLog(key)} :
       /\ \E e \in Events(L, "spine") : TRUE
       /\ \E e \in Events(L, "room") : e.what = "split_node" /\ e.n = MAX_NBLK - 1
       /\ \E e \in Events(L, "room") : e.what = "insert_node"

(* C19: after every insert, remove and valid update_key that returns, for  *)
(* every entry of every internal block the separator key is not less than  *)
(* any key stored below its child and is strictly less than every key      *)
(* stored below the child of the next entry, and the separators of a block *)
(* are strictly ascending.                                                 *)
C19_SeparatorsPartitionKeys ==
  failed = "none" =>
    \A a \in Internal(Now) : \A j \in 1..blks[a].n :
      /\ \A k \in Below(Now, a, j) : ~Compar(compar, blks[a].nodes[j].key, k)
      /\ j < blks[a].n =>
           /\ \A k \in Below(Now, a, j + 1) : Compar(compar, blks[a].nodes[j].key, k)
           /\ Compar(compar, blks[a].nodes[j].key, blks[a].nodes[j + 1].key)

\* The number of events of kind ev in log L.
Count(L, ev) == Cardinality({j \in 1..Len(L) : L[j].ev = ev})

\* The number of merges in log L that released the root.
Collapses(L) == Cardinality({j \in 1..Len(L) : L[j].ev = "merge" /\ L[j].collapse})

\* The number of live blocks.
NBlks(S) == Cardinality(DOMAIN S.blks)

(* C20: after every operation that returns in a run of inserts, removes,   *)
(* update_key and clear: no pointer of the tree refers to a released       *)
(* block; the live blocks are the blocks below the root, each below        *)
(* exactly one entry; front is a leaf and the only leaf without prev, back *)
(* is a leaf and the only leaf without next, and the next of a leaf has    *)
(* that leaf as prev; an insert adds one block per allocation of its       *)
(* splits and releases none, a remove releases one block per merge and one *)
(* more when the merge replaces the root, and adds none, update_key leaves *)
(* the blocks as they are, clear leaves the root only; and                 *)
(* nghttp3_ksl_free passes every live block to nghttp3_mem_free once.      *)
C20_BlocksOwnedOnce ==
  [][failed' = "none" =>
       /\ NoDangling(After)
       /\ Distinct(Preorder(After, head'))
       /\ Range(Preorder(After, head')) = DOMAIN blks'
       /\ blks'[front'].leaf /\ blks'[back'].leaf
       /\ \A a \in Leaves(After) :
            /\ blks'[a].prev = NULL <=> a = front'
            /\ blks'[a].next = NULL <=> a = back'
            /\ blks'[a].next # NULL =>
                 /\ blks'[blks'[a].next].leaf
                 /\ blks'[blks'[a].next].prev = a
       /\ res'.op = "insert" =>
            NBlks(After) = NBlks(Now) +
              (IF res'.rv = 0
               THEN nghttp3_ksl_insert(Now, res'.key, DataOf(res'.key)).S.nalloc
               ELSE 0)
       /\ res'.op = "remove" =>
            \A L \in {RemoveLog(res'.key)} :
              NBlks(After) = NBlks(Now) - Count(L, "merge") - Collapses(L)
       /\ res'.op = "update_key" => NBlks(After) = NBlks(Now)
       /\ res'.op = "clear" => DOMAIN blks' = {head'}
       /\ Distinct(nghttp3_ksl_free(After))
       /\ Range(nghttp3_ksl_free(After)) = DOMAIN blks']_vars

\* After a remove that followed an update_key, a tree of two levels or
\* more, of which nghttp3_ksl_free releases the root last.
C20_Witness ==
  /\ res.op = "remove"
  /\ failed = "none"
  /\ ~blks[head].leaf
  /\ NBlks(Now) >= 4
  /\ nupd > 0
  /\ Len(nghttp3_ksl_free(Now)) = NBlks(Now)
  /\ nghttp3_ksl_free(Now)[NBlks(Now)] = head

----------------------------------------------------------------------------
(* Termination of the descent loops *)

\* The loop iterations of one call in log L, in order.
Steps(L) == SelectSeq(L, LAMBDA e : e.ev \in {"at", "visit", "extend"})

\* The loop iterations of one call in log L together with the fixups of
\* lines 509-521, in order.
Moves(L) == SelectSeq(L, LAMBDA e : e.ev \in {"at", "visit", "extend", "fix"})

\* Lines 511 and 514: the fixup takes entries from a sibling.
Borrow(e) == e.ev = "fix" /\ e.what \in {"shift_left", "shift_right"}

\* Every iteration in log L is one level below the iteration before it,
\* except that the loop of lines 317-327 starts at the block the outer
\* loop is at, and that the iteration after a borrow is at the same block
\* and is neither a borrow nor a merge; the iterations are at most twice
\* the height of the tree the loop entered, plus one.
Descends(L) ==
  \A M \in {Moves(L)} : \A T \in {Steps(L)} :
    /\ T # <<>> => Len(T) <= 2 * T[1].h + 1
    /\ \A j \in 1..(Len(M) - 1) :
         IF M[j].ev = "fix"
         THEN /\ M[j + 1].ev = "at"
              /\ M[j + 1].h = M[j - 1].h - (IF Borrow(M[j]) THEN 0 ELSE 1)
              /\ (Borrow(M[j]) /\ j + 2 <= Len(M)) =>
                   M[j + 2].ev = "at" /\ M[j + 2].h = M[j + 1].h - 1
         ELSE \/ M[j + 1].ev = "fix"
              \/ M[j].ev = "visit" /\ M[j + 1].ev = "extend" /\ M[j + 1].h = M[j].h
              \/ M[j + 1].ev = M[j].ev /\ M[j + 1].h = M[j].h - 1

\* The call whose log is L and which ended with failed = f has left its
\* loop: it returned from a leaf, or from the loop of lines 317-327 one
\* level above the leaves, or with an error before or in the loop, or an
\* assertion stopped it.
Left(L, f, rv) ==
  \A T \in {Steps(L)} :
    /\ f # "remove:no progress"
    /\ (f = "none" /\ rv = 0) =>
         /\ T # <<>>
         /\ T[Len(T)].leaf \/ (T[Len(T)].ev = "extend" /\ T[Len(T)].h = 1)

\* The keys a caller searches for.
Probes == 0..(MaxKey + 1)

(* C21: in every state the caller may call into, every insert of a new key *)
(* (whichever allocation fails), every remove and every update_key of a    *)
(* stored key, and every lower_bound and lower_bound_compar leaves its     *)
(* loop; each iteration is one level below the one before it, except that  *)
(* in remove an iteration that borrows from a sibling stays at its block   *)
(* and the next iteration moves down; the number of iterations is at most  *)
(* twice the height of the tree the loop entered plus one (for the         *)
(* searches: the height plus one); for every block of 0 to MAX_NBLK        *)
(* entries and every key, right - left shrinks in every iteration of       *)
(* ksl_bsearch, which makes at most blk->n iterations.                     *)
C21_DescentsTerminate ==
  (failed = "none" /\ NoDangling(Now)) =>
    /\ \A key \in Keys \ keys : \A f \in 0..MaxFail :
         \A R \in {nghttp3_ksl_insert(Cur(f), key, DataOf(key))} :
           Descends(R.S.log) /\ Left(R.S.log, R.S.failed, R.rv)
    /\ \A key \in keys : \A R \in {nghttp3_ksl_remove(Now, key)} :
         Descends(R.S.log) /\ Left(R.S.log, R.S.failed, 0)
    /\ \A old_key \in keys : \A new_key \in Keys :
         \A R \in {nghttp3_ksl_update_key(Now, old_key, new_key)} :
           Descends(R.log) /\ Left(R.log, R.failed, 0)
    /\ \A key \in Probes : \A c \in {"less", "range", "range_exclusive"} :
         \A P \in {lower_bound_path(Now, head, key, c)} :
           /\ Len(P) <= Height(Now, head) + 1
           /\ \A j \in 1..(Len(P) - 1) :
                Height(Now, P[j + 1]) = Height(Now, P[j]) - 1
           /\ lower_bound_at(Now, P[Len(P)], ksl_bsearch(Now, P[Len(P)], key, c), key, c)
                = nghttp3_ksl_lower_bound_compar(Now, key, c)
           /\ nghttp3_ksl_lower_bound_compar(Now, key, compar)
                = nghttp3_ksl_lower_bound(Now, key)
    /\ \A a \in DOMAIN blks : \A key \in Probes :
         \A c \in {"less", "range", "range_exclusive"} :
           \A B \in {bsearch_bounds(c, blks[a].nodes, key, 0 - 1, blks[a].n)} :
             /\ blks[a].n \in 0..MAX_NBLK
             /\ Len(B) - 1 <= blks[a].n
             /\ \A j \in 1..(Len(B) - 1) :
                  /\ B[j][2] - B[j][1] > 1
                  /\ B[j + 1][2] - B[j + 1][1] < B[j][2] - B[j][1]
                  /\ B[j + 1][2] - B[j + 1][1] >= 1
             /\ B[Len(B)][2] - B[Len(B)][1] <= 1
             /\ B[Len(B)][2] = ksl_bsearch(Now, a, key, c)

====
